---- MODULE Spec2Model ----
(***************************************************************************)
(* Verbeth indexer: event ingestion (backfill, live subscription, retry    *)
(* queue), sequencing and idempotent persistence, checkpoint / recovery.   *)
(*                                                                         *)
(* The store is the SQLite database of db/schema.rs; every statement the   *)
(* code issues through rusqlite runs in autocommit mode (the code opens no *)
(* transaction), so each statement is one atomic step and the statements   *)
(* of two tasks interleave.                                                *)
(***************************************************************************)
EXTENDS Integers, Sequences, FiniteSets, TLC

(***************************************************************************)
(* Bounds of the exploration.                                              *)
(***************************************************************************)
MaxBlock == 3
MaxFaults == 2
MaxRestarts == 1
MaxDisconnects == 1
MaxFailures == 8
MaxCalls == 3
MaxDeliveries == 2

(***************************************************************************)
(* Program constants.                                                      *)
(***************************************************************************)
MAX_CIPHERTEXT_SIZE == 65536
MAX_PUB_KEYS_SIZE == 65
MAX_EPHEMERAL_KEY_SIZE == 1216
MAX_PLAINTEXT_PAYLOAD_SIZE == 1024
MAX_HSR_CIPHERTEXT_SIZE == 4096
MAX_RETRIES == 3
MAX_QUEUE_SIZE == 1000
blocks_per_day == 43200

(***************************************************************************)
(* Configuration values (config.rs), chosen small.                         *)
(***************************************************************************)
creation_block == 1
backfill_days == 7
rpc_chunk_size == 2

NULL == "NULL"
NoBlock == -1

(***************************************************************************)
(* Events (processor.rs, VerbethEvent).  Byte strings are modelled by      *)
(* their lengths; 32-byte keys by names.                                   *)
(***************************************************************************)
MessageSent(topic, ciphertext) ==
    [kind |-> "MessageSent", topic |-> topic, recipient_hash |-> NULL,
     ciphertext |-> ciphertext, pub_keys |-> 0, ephemeral_pub_key |-> 0,
     plaintext_payload |-> 0]

Handshake(recipient_hash, pub_keys, ephemeral_pub_key, plaintext_payload) ==
    [kind |-> "Handshake", topic |-> NULL, recipient_hash |-> recipient_hash,
     ciphertext |-> 0, pub_keys |-> pub_keys,
     ephemeral_pub_key |-> ephemeral_pub_key,
     plaintext_payload |-> plaintext_payload]

HandshakeResponse(ciphertext) ==
    [kind |-> "HandshakeResponse", topic |-> NULL, recipient_hash |-> NULL,
     ciphertext |-> ciphertext, pub_keys |-> 0, ephemeral_pub_key |-> 0,
     plaintext_payload |-> 0]

NoEvent ==
    [kind |-> "None", topic |-> NULL, recipient_hash |-> NULL,
     ciphertext |-> 0, pub_keys |-> 0, ephemeral_pub_key |-> 0,
     plaintext_payload |-> 0]

LogWithMeta(event, block_number, log_index, block_timestamp) ==
    [event |-> event, block_number |-> block_number, log_index |-> log_index,
     block_timestamp |-> block_timestamp]

NoLog == LogWithMeta(NoEvent, 0, 0, 0)

(***************************************************************************)
(* Results of EventProcessor::process: Ok(true), Ok(false) or an error.    *)
(***************************************************************************)
Ok(inserted) ==
    [tag |-> "Ok", inserted |-> inserted, field |-> "", size |-> 0, max |-> 0]

PayloadTooLarge(field, size, max) ==
    [tag |-> "PayloadTooLarge", inserted |-> FALSE, field |-> field,
     size |-> size, max |-> max]

StoreError(tag) ==
    [tag |-> tag, inserted |-> FALSE, field |-> "", size |-> 0, max |-> 0]

NoResult == StoreError("none")

IsErr(result) == result.tag \notin {"Ok", "none"}

\* Mutant: the handshake-response ciphertext is checked against the message cap.
validate_hsr_with_message_cap(event) ==
    CASE event.kind = "MessageSent" ->
           IF event.ciphertext > MAX_CIPHERTEXT_SIZE
           THEN PayloadTooLarge("ciphertext", event.ciphertext, MAX_CIPHERTEXT_SIZE)
           ELSE Ok(TRUE)
      [] event.kind = "Handshake" ->
           IF event.pub_keys > MAX_PUB_KEYS_SIZE
           THEN PayloadTooLarge("pubKeys", event.pub_keys, MAX_PUB_KEYS_SIZE)
           ELSE IF event.ephemeral_pub_key > MAX_EPHEMERAL_KEY_SIZE
           THEN PayloadTooLarge("ephemeralPubKey", event.ephemeral_pub_key,
                                MAX_EPHEMERAL_KEY_SIZE)
           ELSE IF event.plaintext_payload > MAX_PLAINTEXT_PAYLOAD_SIZE
           THEN PayloadTooLarge("plaintextPayload", event.plaintext_payload,
                                MAX_PLAINTEXT_PAYLOAD_SIZE)
           ELSE Ok(TRUE)
      [] event.kind = "HandshakeResponse" ->
           IF event.ciphertext > MAX_CIPHERTEXT_SIZE
           THEN PayloadTooLarge("hsrCiphertext", event.ciphertext,
                                MAX_CIPHERTEXT_SIZE)
           ELSE Ok(TRUE)
      [] OTHER -> Ok(TRUE)

\* Mutant: the comparisons are >= instead of >.
validate_rejecting_at_cap(event) ==
    CASE event.kind = "MessageSent" ->
           IF event.ciphertext >= MAX_CIPHERTEXT_SIZE
           THEN PayloadTooLarge("ciphertext", event.ciphertext, MAX_CIPHERTEXT_SIZE)
           ELSE Ok(TRUE)
      [] event.kind = "Handshake" ->
           IF event.pub_keys >= MAX_PUB_KEYS_SIZE
           THEN PayloadTooLarge("pubKeys", event.pub_keys, MAX_PUB_KEYS_SIZE)
           ELSE IF event.ephemeral_pub_key >= MAX_EPHEMERAL_KEY_SIZE
           THEN PayloadTooLarge("ephemeralPubKey", event.ephemeral_pub_key,
                                MAX_EPHEMERAL_KEY_SIZE)
           ELSE IF event.plaintext_payload >= MAX_PLAINTEXT_PAYLOAD_SIZE
           THEN PayloadTooLarge("plaintextPayload", event.plaintext_payload,
                                MAX_PLAINTEXT_PAYLOAD_SIZE)
           ELSE Ok(TRUE)
      [] event.kind = "HandshakeResponse" ->
           IF event.ciphertext >= MAX_HSR_CIPHERTEXT_SIZE
           THEN PayloadTooLarge("hsrCiphertext", event.ciphertext,
                                MAX_HSR_CIPHERTEXT_SIZE)
           ELSE Ok(TRUE)
      [] OTHER -> Ok(TRUE)

validate_payload_sizes(event) ==
    CASE event.kind = "MessageSent" ->
           IF event.ciphertext > MAX_CIPHERTEXT_SIZE
           THEN PayloadTooLarge("ciphertext", event.ciphertext, MAX_CIPHERTEXT_SIZE)
           ELSE Ok(TRUE)
      [] event.kind = "Handshake" ->
           IF event.pub_keys > MAX_PUB_KEYS_SIZE
           THEN PayloadTooLarge("pubKeys", event.pub_keys, MAX_PUB_KEYS_SIZE)
           ELSE IF event.ephemeral_pub_key > MAX_EPHEMERAL_KEY_SIZE
           THEN PayloadTooLarge("ephemeralPubKey", event.ephemeral_pub_key,
                                MAX_EPHEMERAL_KEY_SIZE)
           ELSE IF event.plaintext_payload > MAX_PLAINTEXT_PAYLOAD_SIZE
           THEN PayloadTooLarge("plaintextPayload", event.plaintext_payload,
                                MAX_PLAINTEXT_PAYLOAD_SIZE)
           ELSE Ok(TRUE)
      [] event.kind = "HandshakeResponse" ->
           IF event.ciphertext > MAX_HSR_CIPHERTEXT_SIZE
           THEN PayloadTooLarge("hsrCiphertext", event.ciphertext,
                                MAX_HSR_CIPHERTEXT_SIZE)
           ELSE Ok(TRUE)
      [] OTHER -> Ok(TRUE)

(***************************************************************************)
(* Stream selection of EventProcessor::process: the seq_counters key.      *)
(***************************************************************************)
KeyType(event) ==
    CASE event.kind = "MessageSent" -> "message"
      [] event.kind = "Handshake" -> "handshake"
      [] OTHER -> "hsr"

KeyHash(event) ==
    CASE event.kind = "MessageSent" -> event.topic
      [] event.kind = "Handshake" -> event.recipient_hash
      [] OTHER -> NULL

(***************************************************************************)
(* seq_counters is the table in rowid order.  The SELECT matches key_hash  *)
(* with IS (NULL IS NULL holds) and query_row takes the first row; the     *)
(* upsert's ON CONFLICT(key_type, key_hash) target is the PRIMARY KEY of a *)
(* rowid table, where NULL key_hash values are distinct from each other,   *)
(* so a NULL key never conflicts and a new row is inserted.                *)
(***************************************************************************)
MinOf(S) == CHOOSE x \in S : \A y \in S : x <= y

\* Mutant: one counter per key_type, whatever the key_hash.
matching_rows_by_type(counters, key_type, key_hash) ==
    {i \in DOMAIN counters : counters[i].key_type = key_type}

MatchingRows(counters, key_type, key_hash) ==
    {i \in DOMAIN counters :
        counters[i].key_type = key_type /\ counters[i].key_hash = key_hash}

select_next_seq(counters, key_type, key_hash) ==
    LET rows == MatchingRows(counters, key_type, key_hash)
    IN  IF rows = {} THEN 0 ELSE counters[MinOf(rows)].next_seq

upsert_next_seq(counters, key_type, key_hash, next_seq) ==
    LET rows == MatchingRows(counters, key_type, key_hash)
    IN  IF key_hash # NULL /\ rows # {}
        THEN [i \in DOMAIN counters |->
                 IF i \in rows
                 THEN [counters[i] EXCEPT !.next_seq = next_seq]
                 ELSE counters[i]]
        ELSE Append(counters, [key_type |-> key_type, key_hash |-> key_hash,
                               next_seq |-> next_seq])

(***************************************************************************)
(* Rows of the three event tables.  stream is the first column of the      *)
(* table's UNIQUE constraint (topic, recipient_hash; NULL for the          *)
(* handshake_responses table, whose constraint is on global_seq alone).    *)
(***************************************************************************)
Row(log, seq) ==
    [stream |-> KeyHash(log.event), seq |-> seq, event |-> log.event,
     block_number |-> log.block_number, log_index |-> log.log_index,
     block_timestamp |-> log.block_timestamp]

Conflicts(table, row) ==
    \E r \in table : r.stream = row.stream /\ r.seq = row.seq

\* Mutant: INSERT OR REPLACE, the conflicting row gives way to the new one.
insert_or_replace(table, row) ==
    {r \in table : ~(r.stream = row.stream /\ r.seq = row.seq)} \cup {row}

\* INSERT OR IGNORE: the table afterwards.
insert_or_ignore(table, row) ==
    IF Conflicts(table, row) THEN table ELSE table \cup {row}

\* The number of rows the statement changed is > 0.
rows_changed(table, row) == ~Conflicts(table, row)

(***************************************************************************)
(* The chain.  Block b holds the logs LogsOf(b) of the watched contract.   *)
(* A raw log has its topics, the first of which is the event signature,    *)
(* and its data, given as the event the bytes encode (NoEvent when they    *)
(* encode none of the three).                                              *)
(***************************************************************************)
RawLog(topic0, event, block_number, log_index) ==
    [topics |-> << topic0 >>, data |-> event, block_number |-> block_number,
     log_index |-> log_index]

\* A log without topics (LOG0).
AnonymousLog(event, block_number, log_index) ==
    [topics |-> << >>, data |-> event, block_number |-> block_number,
     log_index |-> log_index]

\* Even blocks hold, beside one HandshakeResponse, an event of another kind
\* (a proxy upgrade), a log that carries the MessageSent signature over data
\* of another layout, and a log without topics.
LogsOf(b) ==
    IF b % 2 = 1
    THEN << RawLog("MessageSent", MessageSent("T1", 10), b, 0),
            RawLog("MessageSent", MessageSent("T1", 10), b, 1) >>
    ELSE << RawLog("Upgraded", NoEvent, b, 0),
            RawLog("HandshakeResponse", HandshakeResponse(10), b, 1),
            RawLog("MessageSent", HandshakeResponse(10), b, 2),
            AnonymousLog(MessageSent("T1", 10), b, 3) >>

BlockTimestamp(b) == 1000 + b

Signatures == {"MessageSent", "Handshake", "HandshakeResponse"}

\* Variant that takes the data for what it encodes, whatever the topics say.
decode_log_by_data(log) == log.data

\* None is NoEvent.  SolEvent::decode_log(.., true) of the event named by the
\* signature fails on data of another layout, and `.ok()?` returns None.
decode_log(log) ==
    IF log.topics = << >> THEN NoEvent
    ELSE LET sig == log.topics[1]
         IN  IF sig \in Signatures /\ log.data.kind = sig THEN log.data
             ELSE NoEvent

Tasks == {"main", "subscriber", "retry"}

VARIABLES
    chain_head,           \* the chain's highest block
    messages,             \* table messages
    handshakes,           \* table handshakes
    handshake_responses,  \* table handshake_responses
    seq_counters,         \* table seq_counters, in rowid order
    last_block,           \* indexer_state 'last_block', NoBlock when absent
    call,                 \* per task, the EventProcessor::process call in flight
    main_pc,              \* position of main()
    bf,                   \* the run_backfill invocation in progress
    sub,                  \* subscribe_with_reconnect: position and locals
    stream,               \* logs the WebSocket subscription has yet to yield
    retry,                \* run_retry_loop: position and the popped entry
    queue,                \* RetryQueue
    dead_letters,         \* chain positions logged as dead-lettered
    faults,               \* failures injected so far
    restarts,             \* process restarts so far
    disconnects,          \* connection losses so far
    shutdown,             \* value of the shutdown watch channel
    calls                 \* calls submitted so far (SpecProcessor)

store == << messages, handshakes, handshake_responses, seq_counters >>
workers == << main_pc, bf, sub, stream, retry, queue, dead_letters,
             shutdown, disconnects >>
vars == << chain_head, messages, handshakes, handshake_responses,
           seq_counters, last_block, call, main_pc, bf, sub, stream, retry,
           queue, dead_letters, faults, restarts, disconnects, shutdown,
           calls >>

NoCall == [pc |-> "idle", log |-> NoLog, seq |-> 0, result |-> NoResult]

(***************************************************************************)
(* EventProcessor::process, statement by statement.                        *)
(***************************************************************************)
\* Entry: validate_payload_sizes, before any statement.
process_begin(log) ==
    LET v == validate_payload_sizes(log.event)
    IN  IF IsErr(v)
        THEN [pc |-> "done", log |-> log, seq |-> 0, result |-> v]
        ELSE [pc |-> "select", log |-> log, seq |-> 0, result |-> NoResult]

\* get_and_increment_seq, the SELECT.
ProcSelect(t) ==
    /\ call[t].pc = "select"
    /\ call' = [call EXCEPT ![t].pc = "upsert",
                            ![t].seq = select_next_seq(seq_counters,
                                           KeyType(call[t].log.event),
                                           KeyHash(call[t].log.event))]
    /\ UNCHANGED << chain_head, store, last_block, workers, faults, restarts,
                    calls >>

\* get_and_increment_seq, the upsert of seq + 1.
ProcUpsert(t) ==
    /\ call[t].pc = "upsert"
    /\ seq_counters' = upsert_next_seq(seq_counters,
                                       KeyType(call[t].log.event),
                                       KeyHash(call[t].log.event),
                                       call[t].seq + 1)
    /\ call' = [call EXCEPT ![t].pc = "insert"]
    /\ UNCHANGED << chain_head, messages, handshakes, handshake_responses,
                    last_block, workers, faults, restarts, calls >>

\* insert_message / insert_handshake / insert_hsr.
ProcInsert(t) ==
    /\ call[t].pc = "insert"
    /\ LET row == Row(call[t].log, call[t].seq)
           kind == call[t].log.event.kind
           table == CASE kind = "MessageSent" -> messages
                      [] kind = "Handshake" -> handshakes
                      [] OTHER -> handshake_responses
       IN  /\ messages' = IF kind = "MessageSent"
                          THEN insert_or_ignore(messages, row) ELSE messages
           /\ handshakes' = IF kind = "Handshake"
                            THEN insert_or_ignore(handshakes, row) ELSE handshakes
           /\ handshake_responses' =
                  IF kind = "HandshakeResponse"
                  THEN insert_or_ignore(handshake_responses, row)
                  ELSE handshake_responses
           /\ call' = [call EXCEPT ![t].pc = "done",
                                   ![t].result = Ok(rows_changed(table, row))]
    /\ UNCHANGED << chain_head, seq_counters, last_block, workers, faults,
                    restarts, calls >>

\* pool.get() or a statement fails: the `?` returns the error.
ProcError(t) ==
    /\ call[t].pc \in {"select", "upsert", "insert"}
    /\ faults < MaxFaults
    /\ faults' = faults + 1
    /\ \E tag \in {"Pool", "Database"} :
          /\ tag = "Pool" => call[t].pc = "select"
          /\ call' = [call EXCEPT ![t].pc = "done", ![t].result = StoreError(tag)]
    /\ UNCHANGED << chain_head, store, last_block, workers, restarts, calls >>

(***************************************************************************)
(* Checkpoint (queries.rs).  INSERT OR REPLACE writes the given block      *)
(* whatever the stored value is.                                           *)
(***************************************************************************)
set_last_processed_block(current, block) == block

is_db_empty ==
    messages = {} /\ handshakes = {} /\ handshake_responses = {}

(***************************************************************************)
(* RetryQueue (retry_queue.rs).  Each operation returns the queue and the  *)
(* dead-letter records it logged.                                          *)
(***************************************************************************)
FailedEvent(log, retry_count, last_error) ==
    [log |-> log, retry_count |-> retry_count, last_error |-> last_error]

NoFailed == FailedEvent(NoLog, 0, "")

DeadLetter(event, reason) ==
    [block_number |-> event.log.block_number,
     log_index |-> event.log.log_index, reason |-> reason]

\* Variant that rejects the new event when the queue is full.
push_rejecting_when_full(q, log, error) ==
    IF Len(q) >= MAX_QUEUE_SIZE
    THEN [queue |-> q,
          dead |-> {DeadLetter(FailedEvent(log, 0, error), "queue full")}]
    ELSE [queue |-> Append(q, FailedEvent(log, 0, error)), dead |-> {}]

push(q, log, error) ==
    LET full == Len(q) >= MAX_QUEUE_SIZE /\ q # << >>
        kept == IF full THEN Tail(q) ELSE q
    IN  [queue |-> Append(kept, FailedEvent(log, 0, error)),
         dead |-> IF full THEN {DeadLetter(Head(q), "queue full")} ELSE {}]

\* Mutant: the entry is discarded only when retry_count exceeds MAX_RETRIES.
push_retry_discarding_late(q, event, error) ==
    LET e == [event EXCEPT !.retry_count = event.retry_count + 1,
                           !.last_error = error]
    IN  IF e.retry_count > MAX_RETRIES
        THEN [queue |-> q, dead |-> {DeadLetter(e, "max retries")}]
        ELSE [queue |-> Append(q, e), dead |-> {}]

push_retry(q, event, error) ==
    LET e == [event EXCEPT !.retry_count = event.retry_count + 1,
                           !.last_error = error]
    IN  IF e.retry_count >= MAX_RETRIES
        THEN [queue |-> q, dead |-> {DeadLetter(e, "max retries")}]
        ELSE [queue |-> Append(q, e), dead |-> {}]

(***************************************************************************)
(* run_backfill (backfill.rs).                                             *)
(***************************************************************************)
Min(a, b) == IF a <= b THEN a ELSE b
Max(a, b) == IF a >= b THEN a ELSE b

(***************************************************************************)
(* get_logs_with_retry and fetch_block_timestamp_with_retry (backfill.rs). *)
(* An error text is the sequence of its characters.                        *)
(***************************************************************************)
BACKFILL_MAX_RETRIES == 5
INITIAL_BACKOFF_MS == 1000

\* str::contains
Contains(text, pat) ==
    \E i \in 0 .. Len(text) - Len(pat) :
        SubSeq(text, i + 1, i + Len(pat)) = pat

is_rate_limit(text) ==
    \/ Contains(text, << "4", "2", "9" >>)
    \/ Contains(text, << "e", "x", "c", "e", "e", "d", "e", "d" >>)
    \/ Contains(text, << "r", "a", "t", "e" >>)

\* Replies of the provider: Ok(value) or Err(e) with e.to_string() = text;
\* get_block_by_number may also answer Ok(None).
RpcOk == [tag |-> "Ok", text |-> << >>]
RpcNone == [tag |-> "None", text |-> << >>]
RpcErr(text) == [tag |-> "Err", text |-> text]

ErrorTexts ==
    { << "H", "T", "T", "P", " ", "4", "2", "9" >>,
      << "l", "i", "m", "i", "t", " ", "e", "x", "c", "e", "e", "d", "e", "d" >>,
      << "r", "a", "t", "e" >>,
      << "R", "a", "t", "e", "d" >>,
      << "t", "i", "m", "e", "o", "u", "t" >> }

BlockNotFoundText == << "B", "l", "o", "c", "k", "N", "o", "t", "F", "o", "u", "n", "d" >>

\* State of the requests of one chunk: which chunk, the request in its retry
\* loop (request, block), the blocks whose timestamp is still to be fetched, the
\* loop's locals (attempt and the delays slept so far) with the text of the
\* last error, and how it stands.
Requests(chunk, request, block, todo) ==
    [chunk |-> chunk, request |-> request, block |-> block, todo |-> todo,
     attempt |-> 0, slept |-> << >>, status |-> "pending", error |-> << >>]

NoRpc == Requests(-1, "get_logs", 0, {})

\* The Err arm of both retry loops: sleep and go round, or return the error.
retry_or_fail(st, text) ==
    IF is_rate_limit(text) /\ st.attempt < BACKFILL_MAX_RETRIES
    THEN [st EXCEPT !.attempt = st.attempt + 1,
                    !.slept = Append(st.slept,
                                     INITIAL_BACKOFF_MS * 2 ^ (st.attempt + 1 - 1)),
                    !.error = text]
    ELSE [st EXCEPT !.status = "failed", !.error = text]

\* Variant whose bound admits one more round: `attempt <= MAX_RETRIES`.
get_logs_retrying_once_more(st, reply) ==
    IF reply.tag = "Ok" THEN [st EXCEPT !.status = "returned"]
    ELSE IF is_rate_limit(reply.text) /\ st.attempt <= BACKFILL_MAX_RETRIES
    THEN [st EXCEPT !.attempt = st.attempt + 1,
                    !.slept = Append(st.slept,
                                     INITIAL_BACKOFF_MS * 2 ^ (st.attempt + 1 - 1)),
                    !.error = reply.text]
    ELSE [st EXCEPT !.status = "failed", !.error = reply.text]

\* One reply inside the loop of get_logs_with_retry.
get_logs_with_retry(st, reply) ==
    IF reply.tag = "Ok" THEN [st EXCEPT !.status = "returned"]
    ELSE retry_or_fail(st, reply.text)

\* One reply inside the loop of fetch_block_timestamp_with_retry.
fetch_block_timestamp_with_retry(st, reply) ==
    IF reply.tag = "Ok" THEN [st EXCEPT !.status = "returned"]
    ELSE IF reply.tag = "None"
    THEN [st EXCEPT !.status = "failed", !.error = BlockNotFoundText]
    ELSE retry_or_fail(st, reply.text)

NoStats == [blocks_processed |-> 0, events_processed |-> 0, events_skipped |-> 0]

NoBackfill ==
    [phase |-> "idle", owner |-> "main", from_block |-> 0, to_block |-> 0,
     chunk_start |-> 0, logs |-> << >>, stats |-> NoStats, replay |-> FALSE,
     inserted |-> {}, failed |-> {}, last_before |-> NoBlock, rpc |-> NoRpc]

\* eth_getLogs over [lo, hi], address filter only: every log of the blocks.
get_logs(lo, hi) ==
    {l \in UNION {{LogsOf(n)[i] : i \in DOMAIN LogsOf(n)} : n \in lo..hi} :
        l.block_number <= chain_head}

Tables == messages \cup handshakes \cup handshake_responses

StoredAt(block_number, log_index) ==
    \E r \in Tables : r.block_number = block_number /\ r.log_index = log_index

KnownLogs(lo, hi) == {l \in get_logs(lo, hi) : decode_log(l) # NoEvent}

\* Every event of [lo, hi] is in the store (and there is one).
AllStored(lo, hi) ==
    /\ KnownLogs(lo, hi) # {}
    /\ \A l \in KnownLogs(lo, hi) : StoredAt(l.block_number, l.log_index)

\* Entry of run_backfill: the chunk loop is empty when from_block > to_block.
\* replay, inserted, failed and last_before are history values: the range was
\* fully stored when the run began; the rows this run's calls have inserted;
\* the logs of the current chunk whose call returned Err; the checkpoint when
\* the run began.  rpc is the state of the
\* chunk's requests where they are followed reply by reply (SpecFetch);
\* elsewhere BackfillFetch and BackfillFetchFail stand for their outcome.
run_backfill(owner, from_block, to_block) ==
    [phase |-> IF from_block <= to_block THEN "fetch" ELSE "done",
     owner |-> owner, from_block |-> from_block, to_block |-> to_block,
     chunk_start |-> from_block, logs |-> << >>, stats |-> NoStats,
     replay |-> AllStored(from_block, to_block), inserted |-> {},
     failed |-> {}, last_before |-> last_block, rpc |-> NoRpc]

\* Variant without the clamp `.min(to_block)`.
chunk_end_unclamped(b) == b.chunk_start + rpc_chunk_size - 1

chunk_end(b) == Min(b.chunk_start + rpc_chunk_size - 1, b.to_block)

\* logs.sort_by_key(|l| (l.block_number, l.log_index))
Before(a, b) ==
    \/ a.block_number < b.block_number
    \/ a.block_number = b.block_number /\ a.log_index < b.log_index

RECURSIVE sort_by_key(_)
sort_by_key(logs) ==
    IF logs = {} THEN << >>
    ELSE LET first == CHOOSE l \in logs : \A m \in logs \ {l} : Before(l, m)
         IN  << first >> \o sort_by_key(logs \ {first})

\* get_logs_with_retry, sort, fetch_block_timestamp_with_retry per block.
BackfillFetch ==
    /\ bf.phase = "fetch"
    /\ bf' = [bf EXCEPT !.phase = "logs",
                        !.logs = sort_by_key(get_logs(bf.chunk_start,
                                                      chunk_end(bf)))]
    /\ UNCHANGED << chain_head, shutdown, store, last_block, call, main_pc, sub, stream,
                    retry, queue, dead_letters, faults, restarts, disconnects, calls >>

\* The request for the logs or for a block fails for good: `?` ends the run.
BackfillFetchFail ==
    /\ bf.phase = "fetch"
    /\ faults < MaxFaults
    /\ faults' = faults + 1
    /\ bf' = [bf EXCEPT !.phase = "failed"]
    /\ UNCHANGED << chain_head, shutdown, store, last_block, call, main_pc, sub, stream,
                    retry, queue, dead_letters, restarts, disconnects, calls >>

\* Loop head of `for log in logs`: decode, skip or call the processor.
BackfillLog ==
    /\ bf.phase = "logs"
    /\ bf.logs # << >>
    /\ call[bf.owner].pc = "idle"
    /\ LET log == Head(bf.logs)
           event == decode_log(log)
       IN  /\ bf' = [bf EXCEPT !.logs = Tail(bf.logs)]
           /\ call' = IF event = NoEvent THEN call
                      ELSE [call EXCEPT ![bf.owner] =
                              process_begin(LogWithMeta(event, log.block_number,
                                  log.log_index,
                                  BlockTimestamp(log.block_number)))]
    /\ UNCHANGED << chain_head, shutdown, store, last_block, main_pc, sub, stream, retry,
                    queue, dead_letters, faults, restarts, disconnects, calls >>

\* The match on processor.process(..): count, or log the error and go on.
backfill_stats(stats, result) ==
    IF result.tag = "Ok" /\ result.inserted
    THEN [stats EXCEPT !.events_processed = stats.events_processed + 1]
    ELSE IF result.tag = "Ok"
    THEN [stats EXCEPT !.events_skipped = stats.events_skipped + 1]
    ELSE stats

BackfillResult ==
    /\ bf.phase = "logs"
    /\ call[bf.owner].pc = "done"
    /\ bf' = [bf EXCEPT
                !.stats = backfill_stats(bf.stats, call[bf.owner].result),
                !.inserted =
                    IF call[bf.owner].result = Ok(TRUE)
                    THEN bf.inserted \cup {Row(call[bf.owner].log,
                                               call[bf.owner].seq)}
                    ELSE bf.inserted,
                !.failed =
                    IF IsErr(call[bf.owner].result)
                    THEN bf.failed \cup {call[bf.owner].log}
                    ELSE bf.failed]
    /\ call' = [call EXCEPT ![bf.owner] = NoCall]
    /\ UNCHANGED << chain_head, shutdown, store, last_block, main_pc, sub, stream, retry,
                    queue, dead_letters, faults, restarts, disconnects, calls >>

\* After the chunk's logs: the per-chunk checkpoint and the next chunk.
BackfillCheckpoint ==
    /\ bf.phase = "logs"
    /\ bf.logs = << >>
    /\ call[bf.owner].pc = "idle"
    /\ last_block' = set_last_processed_block(last_block, chunk_end(bf))
    /\ bf' = [bf EXCEPT
                !.stats.blocks_processed = chunk_end(bf) - bf.from_block + 1,
                !.chunk_start = bf.chunk_start + rpc_chunk_size,
                !.failed = {},
                !.phase = IF bf.chunk_start + rpc_chunk_size <= bf.to_block
                          THEN "fetch" ELSE "done"]
    /\ UNCHANGED << chain_head, shutdown, store, call, main_pc, sub, stream, retry,
                    queue, dead_letters, faults, restarts, disconnects, calls >>

\* pool.get()? or set_last_processed_block(..)? fails: the run ends in error.
BackfillCheckpointFail ==
    /\ bf.phase = "logs"
    /\ bf.logs = << >>
    /\ call[bf.owner].pc = "idle"
    /\ faults < MaxFaults
    /\ faults' = faults + 1
    /\ bf' = [bf EXCEPT !.phase = "failed"]
    /\ UNCHANGED << chain_head, shutdown, store, last_block, call, main_pc, sub, stream,
                    retry, queue, dead_letters, restarts, disconnects, calls >>

(***************************************************************************)
(* main (main.rs): start block, initial backfill, then the workers.        *)
(***************************************************************************)
saturating_sub(a, b) == IF a >= b THEN a - b ELSE 0

start_block ==
    IF is_db_empty
    THEN Max(saturating_sub(chain_head, blocks_per_day * backfill_days),
             creation_block)
    ELSE (IF last_block = NoBlock THEN creation_block ELSE last_block) + 1

\* Arm of the match on processor.process(..) a worker took last; a history
\* value kept in `outcome` until the worker takes its next log.
Outcome(result) ==
    IF result.tag = "Ok" /\ result.inserted THEN "Inserted"
    ELSE IF result.tag = "Ok" THEN "Duplicate"
    ELSE "Error"

\* live_failed and live_skipped are history values: the blocks of the live
\* logs whose Processor call returned Err, and of those skipped because the
\* timestamp fetch failed, since the reconnect loop last passed its top.
SubscriberOff ==
    [pc |-> "off", is_first_connect |-> TRUE, backoff |-> 1, live_failed |-> {},
     live_skipped |-> {}, outcome |-> "none"]
SubscriberSpawned ==
    [pc |-> "top", is_first_connect |-> TRUE, backoff |-> 1, live_failed |-> {},
     live_skipped |-> {}, outcome |-> "none"]
\* tried is a history value: the positions (block, log index) of the entries
\* the current drain pass has already handed to the Processor.
RetryOff ==
    [pc |-> "off", failed |-> NoFailed, outcome |-> "none", tried |-> {}]
RetrySpawned ==
    [pc |-> "sleep", failed |-> NoFailed, outcome |-> "none", tried |-> {}]

MainStart ==
    /\ main_pc = "start"
    /\ IF start_block < chain_head
       THEN /\ bf' = run_backfill("main", start_block, chain_head)
            /\ main_pc' = "backfill"
            /\ UNCHANGED << sub, retry >>
       ELSE /\ main_pc' = "serving"
            /\ sub' = SubscriberSpawned
            /\ retry' = RetrySpawned
            /\ UNCHANGED bf
    /\ UNCHANGED << chain_head, shutdown, store, last_block, call, stream, queue,
                    dead_letters, faults, restarts, disconnects, calls >>

\* backfill::run_backfill(..).await? returned.
MainBackfillDone ==
    /\ main_pc = "backfill"
    /\ bf.owner = "main"
    /\ bf.phase \in {"done", "failed"}
    /\ IF bf.phase = "done"
       THEN /\ main_pc' = "serving"
            /\ sub' = SubscriberSpawned
            /\ retry' = RetrySpawned
       ELSE /\ main_pc' = "exited"
            /\ UNCHANGED << sub, retry >>
    /\ bf' = NoBackfill
    /\ UNCHANGED << chain_head, shutdown, store, last_block, call, stream, queue,
                    dead_letters, faults, restarts, disconnects, calls >>

(***************************************************************************)
(* subscribe_with_reconnect, recover_missed_events, connect_and_subscribe  *)
(* (subscriber.rs).                                                        *)
(***************************************************************************)
\* Mutant: the top of the loop goes on to connect although the signal is set.
sub_top_ignoring_signal ==
    /\ sub.pc = "top"
    /\ shutdown
    /\ sub' = [sub EXCEPT !.pc = "connect", !.is_first_connect = FALSE]
    /\ UNCHANGED << chain_head, shutdown, store, last_block, call, main_pc, bf,
                    stream, retry, queue, dead_letters, faults, restarts,
                    disconnects, calls >>

\* Top of the reconnect loop: `if *shutdown.borrow() { break }`.
SubShutdownTop ==
    /\ sub.pc = "top"
    /\ shutdown
    /\ sub' = [sub EXCEPT !.pc = "stopped"]
    /\ UNCHANGED << chain_head, shutdown, store, last_block, call, main_pc, bf,
                    stream, retry, queue, dead_letters, faults, restarts, disconnects, calls >>

\* Top of the reconnect loop; recover_missed_events unless first connect.
SubTop ==
    /\ sub.pc = "top"
    /\ ~shutdown
    /\ LET last == IF last_block = NoBlock THEN 0 ELSE last_block
       IN  IF sub.is_first_connect \/ chain_head <= last
           THEN /\ sub' = [sub EXCEPT !.pc = "connect",
                                       !.is_first_connect = FALSE,
                                       !.live_failed = {},
                                       !.live_skipped = {}]
                /\ UNCHANGED bf
           ELSE /\ bf' = run_backfill("subscriber", last + 1, chain_head)
                /\ sub' = [sub EXCEPT !.pc = "recover", !.live_failed = {},
                                       !.live_skipped = {}]
    /\ UNCHANGED << chain_head, shutdown, store, last_block, call, main_pc, stream, retry,
                    queue, dead_letters, faults, restarts, disconnects, calls >>

\* recover_missed_events fails before the backfill (pool, get_block_number):
\* the error is logged and the loop goes on to connect.
SubRecoverFail ==
    /\ sub.pc = "top"
    /\ ~shutdown
    /\ ~sub.is_first_connect
    /\ faults < MaxFaults
    /\ faults' = faults + 1
    /\ sub' = [sub EXCEPT !.pc = "connect", !.live_failed = {},
                           !.live_skipped = {}]
    /\ UNCHANGED << chain_head, shutdown, store, last_block, call, main_pc, bf, stream,
                    retry, queue, dead_letters, restarts, disconnects, calls >>

\* run_backfill returned to recover_missed_events, Ok or Err alike.
SubRecovered ==
    /\ sub.pc = "recover"
    /\ bf.owner = "subscriber"
    /\ bf.phase \in {"done", "failed"}
    /\ sub' = [sub EXCEPT !.pc = "connect"]
    /\ bf' = NoBackfill
    /\ UNCHANGED << chain_head, shutdown, store, last_block, call, main_pc, stream, retry,
                    queue, dead_letters, faults, restarts, disconnects, calls >>

\* on_ws and subscribe_logs succeed.
SubConnect ==
    /\ sub.pc = "connect"
    /\ sub' = [sub EXCEPT !.pc = "live"]
    /\ stream' = << >>
    /\ UNCHANGED << chain_head, shutdown, store, last_block, call, main_pc, bf, retry,
                    queue, dead_letters, faults, restarts, disconnects, calls >>

\* The connection ends: connecting fails, or the stream ends between logs.
\* connect_and_subscribe returns Err; at most `budget` such losses in a run.
connection_lost(budget) ==
    /\ \/ sub.pc = "connect"
       \/ sub.pc = "live" /\ call["subscriber"].pc = "idle"
    /\ disconnects < budget
    /\ disconnects' = disconnects + 1
    /\ sub' = [sub EXCEPT !.pc = "backoff"]
    /\ stream' = << >>
    /\ UNCHANGED << chain_head, shutdown, store, last_block, call, main_pc, bf,
                    retry, queue, dead_letters, faults, restarts, calls >>

SubDisconnect == connection_lost(MaxDisconnects)

\* Variant of the backoff update without the cap `.min(60 s)`.
sub_backoff_uncapped ==
    /\ sub.pc = "backoff"
    /\ sub' = [sub EXCEPT !.pc = "top", !.backoff = sub.backoff * 2]
    /\ UNCHANGED << chain_head, shutdown, store, last_block, call, main_pc, bf,
                    stream, retry, queue, dead_letters, faults, restarts,
                    disconnects, calls >>

\* sleep(backoff), then backoff = min(backoff * 2, 60 s).
SubBackoff ==
    /\ sub.pc = "backoff"
    /\ sub' = [sub EXCEPT !.pc = "top", !.backoff = Min(sub.backoff * 2, 60)]
    /\ UNCHANGED << chain_head, shutdown, store, last_block, call, main_pc, bf, stream,
                    retry, queue, dead_letters, faults, restarts, disconnects, calls >>

\* The select! arm `shutdown.changed()` while sleeping: break.
SubShutdownBackoff ==
    /\ sub.pc = "backoff"
    /\ shutdown
    /\ sub' = [sub EXCEPT !.pc = "stopped"]
    /\ UNCHANGED << chain_head, shutdown, store, last_block, call, main_pc, bf,
                    stream, retry, queue, dead_letters, faults, restarts, disconnects, calls >>

\* The select! arm `shutdown.changed()` of connect_and_subscribe: Ok(()),
\* and subscribe_with_reconnect breaks; the subscription is dropped.
SubShutdownLive ==
    /\ sub.pc = "live"
    /\ call["subscriber"].pc = "idle"
    /\ shutdown
    /\ sub' = [sub EXCEPT !.pc = "stopped"]
    /\ stream' = << >>
    /\ UNCHANGED << chain_head, shutdown, store, last_block, call, main_pc, bf,
                    retry, queue, dead_letters, faults, restarts, disconnects, calls >>

\* A log from the stream: decode, fetch the block timestamp, call process.
SubLiveLog ==
    /\ sub.pc = "live"
    /\ call["subscriber"].pc = "idle"
    /\ stream # << >>
    /\ LET log == Head(stream)
           event == decode_log(log)
       IN  call' = IF event = NoEvent THEN call
                   ELSE [call EXCEPT !["subscriber"] =
                           process_begin(LogWithMeta(event, log.block_number,
                               log.log_index, BlockTimestamp(log.block_number)))]
    /\ stream' = Tail(stream)
    /\ sub' = [sub EXCEPT !.outcome = "none"]
    /\ UNCHANGED << chain_head, shutdown, store, last_block, main_pc, bf, retry,
                    queue, dead_letters, faults, restarts, disconnects, calls >>

\* fetch_block_timestamp fails: warn and `continue`.
SubLiveTimestampFail ==
    /\ sub.pc = "live"
    /\ call["subscriber"].pc = "idle"
    /\ stream # << >>
    /\ decode_log(Head(stream)) # NoEvent
    /\ faults < MaxFaults
    /\ faults' = faults + 1
    /\ stream' = Tail(stream)
    /\ sub' = [sub EXCEPT !.live_skipped =
                    sub.live_skipped \cup {Head(stream).block_number},
                           !.outcome = "none"]
    /\ UNCHANGED << chain_head, shutdown, store, last_block, call, main_pc, bf,
                    retry, queue, dead_letters, restarts, disconnects, calls >>

\* The match on processor.process(..) in connect_and_subscribe.
SubLiveResult ==
    /\ sub.pc = "live"
    /\ call["subscriber"].pc = "done"
    /\ LET c == call["subscriber"]
           pushed == push(queue, c.log, c.result.tag)
       IN  /\ last_block' = IF c.result.tag = "Ok" /\ c.result.inserted
                            THEN set_last_processed_block(last_block,
                                                          c.log.block_number)
                            ELSE last_block
           /\ queue' = IF IsErr(c.result) THEN pushed.queue ELSE queue
           /\ dead_letters' = IF IsErr(c.result)
                              THEN dead_letters \cup pushed.dead
                              ELSE dead_letters
           /\ sub' = [sub EXCEPT
                        !.live_failed =
                            IF IsErr(c.result)
                            THEN sub.live_failed \cup {c.log.block_number}
                            ELSE sub.live_failed,
                        !.outcome = Outcome(c.result)]
    /\ call' = [call EXCEPT !["subscriber"] = NoCall]
    /\ UNCHANGED << chain_head, shutdown, store, main_pc, bf, stream, retry, faults,
                    restarts, disconnects, calls >>

\* Ok(true), then pool.get()? or set_last_processed_block(..)? fails:
\* connect_and_subscribe returns the error.
SubLiveCheckpointFail ==
    /\ sub.pc = "live"
    /\ call["subscriber"].pc = "done"
    /\ call["subscriber"].result.tag = "Ok"
    /\ call["subscriber"].result.inserted
    /\ faults < MaxFaults
    /\ faults' = faults + 1
    /\ call' = [call EXCEPT !["subscriber"] = NoCall]
    /\ sub' = [sub EXCEPT !.pc = "backoff", !.outcome = "Inserted"]
    /\ stream' = << >>
    /\ UNCHANGED << chain_head, shutdown, store, last_block, main_pc, bf, retry, queue,
                    dead_letters, restarts, disconnects, calls >>

(***************************************************************************)
(* run_retry_loop (subscriber.rs).                                         *)
(***************************************************************************)
\* The select! arm `shutdown.changed()` of run_retry_loop: return.
RetryShutdown ==
    /\ retry.pc = "sleep"
    /\ shutdown
    /\ retry' = [retry EXCEPT !.pc = "stopped"]
    /\ UNCHANGED << chain_head, shutdown, store, last_block, call, main_pc, bf,
                    sub, stream, queue, dead_letters, faults, restarts, disconnects, calls >>

\* sleep(RETRY_INTERVAL_SECS) elapsed.
RetryTick ==
    /\ retry.pc = "sleep"
    /\ retry' = [retry EXCEPT !.pc = "drain"]
    /\ UNCHANGED << chain_head, shutdown, store, last_block, call, main_pc, bf, sub,
                    stream, queue, dead_letters, faults, restarts, disconnects, calls >>

\* while let Some(failed) = queue.pop(): call process, or end the pass.
RetryPop ==
    /\ retry.pc = "drain"
    /\ call["retry"].pc = "idle"
    /\ IF queue = << >>
       THEN /\ retry' = [retry EXCEPT !.pc = "sleep", !.outcome = "none",
                                       !.tried = {}]
            /\ UNCHANGED << queue, call >>
       ELSE /\ retry' = [retry EXCEPT
                            !.failed = Head(queue),
                            !.outcome = "none",
                            !.tried = retry.tried \cup
                                {<< Head(queue).log.block_number,
                                    Head(queue).log.log_index >>}]
            /\ queue' = Tail(queue)
            /\ call' = [call EXCEPT !["retry"] = process_begin(Head(queue).log)]
    /\ UNCHANGED << chain_head, shutdown, store, last_block, main_pc, bf, sub, stream,
                    dead_letters, faults, restarts, disconnects, calls >>

\* Variant of the match whose Ok(false) arm writes the checkpoint as well.
retry_result_advancing_on_duplicate ==
    /\ retry.pc = "drain"
    /\ call["retry"].pc = "done"
    /\ LET c == call["retry"]
           pushed == push_retry(queue, retry.failed, c.result.tag)
       IN  /\ last_block' = IF c.result.tag = "Ok"
                            THEN set_last_processed_block(last_block,
                                     retry.failed.log.block_number)
                            ELSE last_block
           /\ queue' = IF IsErr(c.result) THEN pushed.queue ELSE queue
           /\ dead_letters' = IF IsErr(c.result)
                              THEN dead_letters \cup pushed.dead
                              ELSE dead_letters
    /\ call' = [call EXCEPT !["retry"] = NoCall]
    /\ retry' = [retry EXCEPT !.failed = NoFailed,
                             !.outcome = Outcome(call["retry"].result)]
    /\ UNCHANGED << chain_head, shutdown, store, main_pc, bf, sub, stream, faults,
                    restarts, disconnects, calls >>

\* The match on processor.process(..) in run_retry_loop.
RetryResult ==
    /\ retry.pc = "drain"
    /\ call["retry"].pc = "done"
    /\ LET c == call["retry"]
           pushed == push_retry(queue, retry.failed, c.result.tag)
       IN  /\ last_block' = IF c.result.tag = "Ok" /\ c.result.inserted
                            THEN set_last_processed_block(last_block,
                                     retry.failed.log.block_number)
                            ELSE last_block
           /\ queue' = IF IsErr(c.result) THEN pushed.queue ELSE queue
           /\ dead_letters' = IF IsErr(c.result)
                              THEN dead_letters \cup pushed.dead
                              ELSE dead_letters
    /\ call' = [call EXCEPT !["retry"] = NoCall]
    /\ retry' = [retry EXCEPT !.failed = NoFailed,
                             !.outcome = Outcome(call["retry"].result)]
    /\ UNCHANGED << chain_head, shutdown, store, main_pc, bf, sub, stream, faults,
                    restarts, disconnects, calls >>

\* Ok(true), but pool.get() or the write fails: both are ignored.
RetryCheckpointFail ==
    /\ retry.pc = "drain"
    /\ call["retry"].pc = "done"
    /\ call["retry"].result.tag = "Ok"
    /\ call["retry"].result.inserted
    /\ faults < MaxFaults
    /\ faults' = faults + 1
    /\ call' = [call EXCEPT !["retry"] = NoCall]
    /\ retry' = [retry EXCEPT !.failed = NoFailed, !.outcome = "Inserted"]
    /\ UNCHANGED << chain_head, shutdown, store, last_block, main_pc, bf, sub, stream,
                    queue, dead_letters, restarts, disconnects, calls >>

(***************************************************************************)
(* Environment: the chain grows; the process is killed and started again.  *)
(***************************************************************************)
RECURSIVE filter_events(_, _)
filter_events(logs, kinds) ==
    IF logs = << >> THEN << >>
    ELSE IF Head(logs).topics # << >> /\ Head(logs).topics[1] \in kinds
    THEN << Head(logs) >> \o filter_events(Tail(logs), kinds)
    ELSE filter_events(Tail(logs), kinds)

\* A block is mined; an open subscription (filtered by the three event
\* signatures) will yield its logs.
MineBlock ==
    /\ chain_head < MaxBlock
    /\ chain_head' = chain_head + 1
    /\ stream' = IF sub.pc = "live"
                 THEN stream \o filter_events(LogsOf(chain_head + 1), Signatures)
                 ELSE stream
    /\ UNCHANGED << store, last_block, call, main_pc, bf, sub, retry, queue,
                    dead_letters, faults, restarts, disconnects, shutdown, calls >>

\* SIGINT or SIGTERM while the server runs: shutdown_tx.send(true).  The
\* handler is installed with the server, after the initial backfill.
Shutdown ==
    /\ main_pc = "serving"
    /\ ~shutdown
    /\ shutdown' = TRUE
    /\ UNCHANGED << chain_head, store, last_block, call, main_pc, bf, sub,
                    stream, retry, queue, dead_letters, faults, restarts, disconnects, calls >>

\* The process dies at any point and is started again: only the database
\* (and what was logged) survives.
Restart ==
    /\ restarts < MaxRestarts
    /\ restarts' = restarts + 1
    /\ main_pc' = "start"
    /\ call' = [t \in Tasks |-> NoCall]
    /\ bf' = NoBackfill
    /\ sub' = SubscriberOff
    /\ retry' = RetryOff
    /\ stream' = << >>
    /\ queue' = << >>
    /\ shutdown' = FALSE
    /\ UNCHANGED << chain_head, store, last_block, dead_letters, faults,
                    disconnects, calls >>

Init ==
    /\ chain_head = 0
    /\ messages = {}
    /\ handshakes = {}
    /\ handshake_responses = {}
    /\ seq_counters = << >>
    /\ last_block = NoBlock
    /\ call = [t \in Tasks |-> NoCall]
    /\ main_pc = "start"
    /\ bf = NoBackfill
    /\ sub = SubscriberOff
    /\ stream = << >>
    /\ retry = RetryOff
    /\ queue = << >>
    /\ dead_letters = {}
    /\ faults = 0
    /\ restarts = 0
    /\ disconnects = 0
    /\ shutdown = FALSE
    /\ calls = 0

\* One run of the process, no signal delivered.
Next ==
    \/ \E t \in Tasks : ProcSelect(t) \/ ProcUpsert(t) \/ ProcInsert(t) \/ ProcError(t)
    \/ BackfillFetch \/ BackfillFetchFail \/ BackfillLog \/ BackfillResult
    \/ BackfillCheckpoint \/ BackfillCheckpointFail
    \/ MainStart \/ MainBackfillDone
    \/ SubTop \/ SubRecoverFail \/ SubRecovered \/ SubConnect \/ SubDisconnect
    \/ SubBackoff \/ SubLiveLog \/ SubLiveTimestampFail \/ SubLiveResult
    \/ SubLiveCheckpointFail
    \/ RetryTick \/ RetryPop \/ RetryResult \/ RetryCheckpointFail
    \/ MineBlock

Spec == Init /\ [][Next]_vars

\* The retry worker is a spawned task of its own: its timer fires, and each
\* of its steps is taken once it can be.
FairRetry ==
    /\ WF_vars(RetryTick)
    /\ WF_vars(RetryPop)
    /\ WF_vars(RetryResult)
    /\ WF_vars(ProcSelect("retry") \/ ProcUpsert("retry") \/ ProcInsert("retry"))

SpecFair == Init /\ [][Next]_vars /\ FairRetry

\* The process is killed and started again over the same database.
NextRestart == Next \/ Restart

SpecRestart == Init /\ [][NextRestart]_vars

\* The reconnect loop over up to MaxFailures failed connect_and_subscribe
\* calls, with no other fault: main, the recovery backfills and the live
\* worker run as in Next; the retry queue stays empty.
SubFail == connection_lost(MaxFailures)

NextReconnect ==
    \/ \E t \in Tasks : ProcSelect(t) \/ ProcUpsert(t) \/ ProcInsert(t)
    \/ BackfillFetch \/ BackfillLog \/ BackfillResult \/ BackfillCheckpoint
    \/ MainStart \/ MainBackfillDone
    \/ SubTop \/ SubRecovered \/ SubConnect \/ SubFail \/ SubBackoff
    \/ SubLiveLog \/ SubLiveResult
    \/ MineBlock

SpecReconnect == Init /\ [][NextReconnect]_vars

\* One run of run_backfill with the requests of each chunk followed reply by
\* reply: get_logs_with_retry, then fetch_block_timestamp_with_retry for each
\* block of the chunk's logs, in the arbitrary order of the HashSet.
RpcState(b) ==
    IF b.rpc.chunk = b.chunk_start THEN b.rpc
    ELSE Requests(b.chunk_start, "get_logs", 0, {})

unique_blocks(b) ==
    {l.block_number : l \in get_logs(b.chunk_start, chunk_end(b))}

Replies == {RpcOk} \cup {RpcErr(text) : text \in ErrorTexts}

\* The loop returned Ok: on to the timestamp of one of the blocks in `todo`,
\* or the chunk's requests are complete.
NextRequest(todo) ==
    IF todo = {}
    THEN bf' = [bf EXCEPT !.rpc = [Requests(bf.chunk_start, "none", 0, {})
                                      EXCEPT !.status = "ok"]]
    ELSE \E n \in todo :
            bf' = [bf EXCEPT !.rpc = Requests(bf.chunk_start, "get_block", n,
                                              todo \ {n})]

RequestStep(after, todo) ==
    /\ IF after.status = "returned"
       THEN NextRequest(todo)
       ELSE bf' = [bf EXCEPT !.rpc = after]
    /\ UNCHANGED << chain_head, shutdown, store, last_block, call, main_pc, sub,
                    stream, retry, queue, dead_letters, faults, restarts,
                    disconnects, calls >>

GetLogsReply(reply) ==
    /\ bf.phase = "fetch"
    /\ RpcState(bf).request = "get_logs"
    /\ RpcState(bf).status = "pending"
    /\ RequestStep(get_logs_with_retry(RpcState(bf), reply), unique_blocks(bf))

GetBlockReply(reply) ==
    /\ bf.phase = "fetch"
    /\ RpcState(bf).request = "get_block"
    /\ RpcState(bf).status = "pending"
    /\ RequestStep(fetch_block_timestamp_with_retry(RpcState(bf), reply),
                   RpcState(bf).todo)

FetchReturned == RpcState(bf).status = "ok" /\ BackfillFetch

FetchFailed == RpcState(bf).status = "failed" /\ BackfillFetchFail

InitFetch ==
    /\ chain_head = MaxBlock
    /\ messages = {}
    /\ handshakes = {}
    /\ handshake_responses = {}
    /\ seq_counters = << >>
    /\ last_block = NoBlock
    /\ call = [t \in Tasks |-> NoCall]
    /\ main_pc = "backfill"
    /\ \E from_block \in 1 .. MaxBlock :
          bf = run_backfill("main", from_block, MaxBlock)
    /\ sub = SubscriberOff
    /\ stream = << >>
    /\ retry = RetryOff
    /\ queue = << >>
    /\ dead_letters = {}
    /\ faults = 0
    /\ restarts = 0
    /\ disconnects = 0
    /\ shutdown = FALSE
    /\ calls = 0

NextFetch ==
    \/ \E reply \in Replies : GetLogsReply(reply)
    \/ \E reply \in Replies \cup {RpcNone} : GetBlockReply(reply)
    \/ FetchReturned \/ FetchFailed
    \/ BackfillLog \/ BackfillResult \/ BackfillCheckpoint
    \/ ProcSelect("main") \/ ProcUpsert("main") \/ ProcInsert("main")

\* Every request is answered, and the task goes on when it can.
SpecFetch == InitFetch /\ [][NextFetch]_vars /\ WF_vars(NextFetch)

(***************************************************************************)
(* The processor on its own: two tasks (as the subscriber and the retry    *)
(* loop are) call EventProcessor::process on events of every kind, with    *)
(* each payload field at its cap or one byte over.                         *)
(***************************************************************************)
Names == {"A", "B"}

InputEvents ==
    {MessageSent(k, n) :
        k \in Names, n \in {MAX_CIPHERTEXT_SIZE, MAX_CIPHERTEXT_SIZE + 1}}
    \cup {Handshake(k, MAX_PUB_KEYS_SIZE, MAX_EPHEMERAL_KEY_SIZE,
                    MAX_PLAINTEXT_PAYLOAD_SIZE) : k \in Names}
    \cup {Handshake("A", MAX_PUB_KEYS_SIZE + 1, MAX_EPHEMERAL_KEY_SIZE,
                    MAX_PLAINTEXT_PAYLOAD_SIZE),
          Handshake("A", MAX_PUB_KEYS_SIZE, MAX_EPHEMERAL_KEY_SIZE + 1,
                    MAX_PLAINTEXT_PAYLOAD_SIZE),
          Handshake("A", MAX_PUB_KEYS_SIZE, MAX_EPHEMERAL_KEY_SIZE,
                    MAX_PLAINTEXT_PAYLOAD_SIZE + 1)}
    \cup {HandshakeResponse(n) :
        n \in {MAX_HSR_CIPHERTEXT_SIZE, MAX_HSR_CIPHERTEXT_SIZE + 1}}

Callers == {"subscriber", "retry"}

\* A caller passes the next log of the chain to process.
Submit(t, event) ==
    /\ call[t].pc = "idle"
    /\ calls < MaxCalls
    /\ calls' = calls + 1
    /\ call' = [call EXCEPT ![t] =
                  process_begin(LogWithMeta(event, calls + 1, 0,
                                            BlockTimestamp(calls + 1)))]
    /\ UNCHANGED << chain_head, store, last_block, workers, faults, restarts >>

\* The caller takes the result.
Return(t) ==
    /\ call[t].pc = "done"
    /\ call' = [call EXCEPT ![t] = NoCall]
    /\ UNCHANGED << chain_head, store, last_block, workers, faults, restarts,
                    calls >>

NextProcessor ==
    \/ \E t \in Callers : \E event \in InputEvents : Submit(t, event)
    \/ \E t \in Callers : ProcSelect(t) \/ ProcUpsert(t) \/ ProcInsert(t)
    \/ \E t \in Callers : ProcError(t) \/ Return(t)

SpecProcessor == Init /\ [][NextProcessor]_vars

\* EventProcessor::process under one caller and without failures: each call
\* returns before the next begins.
NextSequential ==
    \/ \E event \in InputEvents : Submit("subscriber", event)
    \/ ProcSelect("subscriber") \/ ProcUpsert("subscriber")
    \/ ProcInsert("subscriber")
    \/ Return("subscriber")

SpecSequential == Init /\ [][NextSequential]_vars

(***************************************************************************)
(* The retry queue in use: the subscription is open, the stream yields     *)
(* logs whose processing fails (a payload field over its cap) or succeeds, *)
(* and the drainer runs.                                                   *)
(***************************************************************************)
LiveEvents ==
    {MessageSent("T1", MAX_CIPHERTEXT_SIZE + 1), MessageSent("T1", 10)}

\* The subscription yields a further log of the contract, one that is not
\* among LogsOf: the log of a block past MaxBlock.
Deliver(event) ==
    /\ sub.pc = "live"
    /\ calls < MaxCalls
    /\ calls' = calls + 1
    /\ stream' = Append(stream, RawLog(event.kind, event,
                                       MaxBlock + calls + 1, 0))
    /\ UNCHANGED << chain_head, store, last_block, call, main_pc, bf, sub,
                    retry, queue, dead_letters, faults, restarts, disconnects,
                    shutdown >>

\* The workers have been spawned and the subscription is open.
InitServing(q) ==
    /\ chain_head = 0
    /\ messages = {}
    /\ handshakes = {}
    /\ handshake_responses = {}
    /\ seq_counters = << >>
    /\ last_block = NoBlock
    /\ call = [t \in Tasks |-> NoCall]
    /\ main_pc = "serving"
    /\ bf = NoBackfill
    /\ sub = [pc |-> "live", is_first_connect |-> FALSE, backoff |-> 1,
              live_failed |-> {}, live_skipped |-> {}, outcome |-> "none"]
    /\ stream = << >>
    /\ retry = RetrySpawned
    /\ queue = q
    /\ dead_letters = {}
    /\ faults = 0
    /\ restarts = 0
    /\ disconnects = 0
    /\ shutdown = FALSE
    /\ calls = 0

InitRetry == InitServing(<< >>)

NextRetry ==
    \/ \E event \in LiveEvents : Deliver(event)
    \/ \E t \in Callers : ProcSelect(t) \/ ProcUpsert(t) \/ ProcInsert(t)
    \/ \E t \in Callers : ProcError(t)
    \/ SubLiveLog \/ SubLiveResult
    \/ RetryTick \/ RetryPop \/ RetryResult

SpecRetry == InitRetry /\ [][NextRetry]_vars

SpecRetryFair == InitRetry /\ [][NextRetry]_vars /\ FairRetry

(***************************************************************************)
(* Shutdown: the signal is delivered while the workers run.  The chain     *)
(* grows, the connection is lost and made again, and the stream yields up  *)
(* to MaxDeliveries oversized events, which the drainer retries; nothing   *)
(* else fails.                                                             *)
(***************************************************************************)
NextShutdown ==
    \/ \E t \in Tasks : ProcSelect(t) \/ ProcUpsert(t) \/ ProcInsert(t)
    \/ BackfillFetch \/ BackfillLog \/ BackfillResult \/ BackfillCheckpoint
    \/ MainStart \/ MainBackfillDone
    \/ SubTop \/ SubRecovered \/ SubConnect \/ SubDisconnect
    \/ SubBackoff \/ SubLiveLog \/ SubLiveResult
    \/ RetryTick \/ RetryPop \/ RetryResult
    \/ MineBlock
    \/ (calls < MaxDeliveries
          /\ Deliver(MessageSent("T1", MAX_CIPHERTEXT_SIZE + 1)))
    \/ Shutdown
    \/ SubShutdownTop \/ SubShutdownBackoff \/ SubShutdownLive \/ RetryShutdown

\* Every task that can take a step of its code does so in the end (the
\* runtime schedules every ready task).  A select! polls its ready arms in
\* random order, so an arm that is ready again and again is taken in the
\* end: the shutdown arm of the retry loop, against the sleep arm.
FairShutdown ==
    /\ \A t \in Tasks :
          WF_vars(ProcSelect(t) \/ ProcUpsert(t) \/ ProcInsert(t))
    /\ WF_vars(BackfillFetch \/ BackfillLog \/ BackfillResult
                 \/ BackfillCheckpoint)
    /\ WF_vars(SubShutdownTop \/ SubRecovered \/ SubConnect \/ SubLiveResult)
    /\ WF_vars(SubShutdownBackoff)
    /\ WF_vars(SubShutdownLive)
    /\ WF_vars(RetryPop \/ RetryResult)
    /\ SF_vars(RetryShutdown)

SpecShutdown == Init /\ [][NextShutdown]_vars /\ FairShutdown

(***************************************************************************)
(* The RetryQueue operations at its capacity.  A burst of oversized events *)
(* has filled the queue to 1000 entries or one below (or it is empty); the *)
(* subscription worker calls push; the drainer calls pop and then, as      *)
(* process fails or not, push_retry or nothing.  Each operation holds the  *)
(* queue's mutex, so the operations interleave whole.                      *)
(***************************************************************************)
BurstLog(n) ==
    LogWithMeta(MessageSent("T1", MAX_CIPHERTEXT_SIZE + 1), n, 0,
                BlockTimestamp(n))

Burst(n) == [i \in 1 .. n |-> FailedEvent(BurstLog(i), 0, "PayloadTooLarge")]

Errors == {"PayloadTooLarge", "Database"}

\* connect_and_subscribe, Err arm: retry_queue.push(retry_log, e.to_string()).
QueuePush(error) ==
    /\ calls < MaxCalls
    /\ calls' = calls + 1
    /\ LET pushed == push(queue, BurstLog(MAX_QUEUE_SIZE + calls + 1), error)
       IN  /\ queue' = pushed.queue
           /\ dead_letters' = dead_letters \cup pushed.dead
    /\ UNCHANGED << chain_head, store, last_block, call, main_pc, bf, sub,
                    stream, retry, faults, restarts, disconnects, shutdown >>

\* run_retry_loop: queue.pop() yields an entry.
QueuePop ==
    /\ retry.failed = NoFailed
    /\ queue # << >>
    /\ calls < MaxCalls
    /\ calls' = calls + 1
    /\ retry' = [retry EXCEPT !.failed = Head(queue)]
    /\ queue' = Tail(queue)
    /\ UNCHANGED << chain_head, store, last_block, call, main_pc, bf, sub,
                    stream, dead_letters, faults, restarts, disconnects,
                    shutdown >>

\* run_retry_loop, Err arm: queue.push_retry(failed, e.to_string()).
QueuePushRetry(error) ==
    /\ retry.failed # NoFailed
    /\ LET pushed == push_retry(queue, retry.failed, error)
       IN  /\ queue' = pushed.queue
           /\ dead_letters' = dead_letters \cup pushed.dead
    /\ retry' = [retry EXCEPT !.failed = NoFailed]
    /\ UNCHANGED << chain_head, store, last_block, call, main_pc, bf, sub,
                    stream, faults, restarts, disconnects, shutdown, calls >>

\* run_retry_loop, Ok arms: the entry is dropped.
QueueDrop ==
    /\ retry.failed # NoFailed
    /\ retry' = [retry EXCEPT !.failed = NoFailed]
    /\ UNCHANGED << chain_head, store, last_block, call, main_pc, bf, sub,
                    stream, queue, dead_letters, faults, restarts, disconnects,
                    shutdown, calls >>

InitQueue ==
    \E n \in {0, MAX_QUEUE_SIZE - 1, MAX_QUEUE_SIZE} : InitServing(Burst(n))

NextQueue ==
    \/ \E error \in Errors : QueuePush(error) \/ QueuePushRetry(error)
    \/ QueuePop \/ QueueDrop

SpecQueue == InitQueue /\ [][NextQueue]_vars

(***************************************************************************)
(* Properties.                                                             *)
(***************************************************************************)
NoCallInFlight == \A t \in Tasks : call[t].pc \in {"idle", "done"}

StreamsOf(table) == {r.stream : r \in table}
SeqsOf(table, k) == {r.seq : r \in {x \in table : x.stream = k}}
RowsOf(table, k) == {r \in table : r.stream = k}

GapFree(table) ==
    \A k \in StreamsOf(table) :
        SeqsOf(table, k) = 0 .. (Cardinality(SeqsOf(table, k)) - 1)

\* C1 (gap-freeness): whenever no Processor call is in flight, the seq
\* values stored for every topic, every recipient_hash and the global
\* handshake-response stream are exactly 0 .. N-1 for some N.
C1_GapFreeness ==
    NoCallInFlight =>
        GapFree(messages) /\ GapFree(handshakes) /\ GapFree(handshake_responses)

ReplayRun(b) == b.phase \in {"fetch", "logs", "done"} /\ b.replay

\* C2 (idempotent replay): a run_backfill over a range whose events are all
\* already stored changes no event table and no sequence counter through its
\* Processor calls, and it ends with events_processed = 0 and events_skipped
\* = the number of known-signature events of the range.
C2_IdempotentReplay ==
    [][ /\ (ReplayRun(bf) /\ call'[bf.owner] # call[bf.owner])
           => UNCHANGED store
        /\ (ReplayRun(bf') /\ bf'.phase = "done")
           => /\ bf'.stats.events_processed = 0
              /\ bf'.stats.events_skipped =
                    Cardinality(KnownLogs(bf'.from_block, bf'.to_block)) ]_vars

\* C3 (no chain event stored twice): no two stored rows carry the same
\* chain position (block_number, log_index).
C3_NoEventStoredTwice ==
    \A r1, r2 \in Tables :
        (r1.block_number = r2.block_number /\ r1.log_index = r2.log_index)
            => r1 = r2

\* C4 (checkpoint monotonicity): no step lowers last_block.
C4_CheckpointMonotonic == [][last_block' >= last_block]_vars

InFlight(block_number, log_index) ==
    LET at(l) == l.block_number = block_number /\ l.log_index = log_index
    IN  \/ \E t \in Tasks : call[t].pc # "idle" /\ at(call[t].log)
        \/ \E i \in DOMAIN queue : at(queue[i].log)
        \/ at(retry.failed.log)
        \/ \E i \in DOMAIN bf.logs : at(bf.logs[i])
        \/ \E i \in DOMAIN stream : at(stream[i])

DeadLettered(block_number, log_index) ==
    \E d \in dead_letters :
        d.block_number = block_number /\ d.log_index = log_index

\* C5 (no event lost below the checkpoint): every known-signature event the
\* contract emitted at a block <= last_block is stored, in flight, or
\* dead-lettered with a log record.
C5_NoEventLost ==
    \A l \in KnownLogs(creation_block, chain_head) :
        l.block_number <= last_block =>
            \/ StoredAt(l.block_number, l.log_index)
            \/ InFlight(l.block_number, l.log_index)
            \/ DeadLettered(l.block_number, l.log_index)

HoldsSeq(t) == call[t].pc \in {"upsert", "insert"}

SameStream(e1, e2) == KeyType(e1) = KeyType(e2) /\ KeyHash(e1) = KeyHash(e2)

\* C6 (sequencer atomicity): two Processor calls in flight at once, from the
\* subscription worker and the retry drainer, for different events of the
\* same stream never hold the same sequence number.
C6_SequencerAtomic ==
    HoldsSeq("subscriber") /\ HoldsSeq("retry")
    /\ SameStream(call["subscriber"].log.event, call["retry"].log.event)
    /\ call["subscriber"].log # call["retry"].log
    => call["subscriber"].seq # call["retry"].seq

MatchingRowsOfType(key_type) ==
    {i \in DOMAIN seq_counters : seq_counters[i].key_type = key_type}

CounterMatches(table, key_type) ==
    \A k \in StreamsOf(table)
             \cup {seq_counters[i].key_hash :
                     i \in MatchingRowsOfType(key_type)} :
        select_next_seq(seq_counters, key_type, k)
            = Cardinality(RowsOf(table, k))

\* C7 (counter consumed only on Inserted): whenever no Processor call is in
\* flight, next_seq of each stream equals the number of rows stored for it.
C7_CounterIsRowCount ==
    NoCallInFlight =>
        /\ CounterMatches(messages, "message")
        /\ CounterMatches(handshakes, "handshake")
        /\ CounterMatches(handshake_responses, "hsr")

UniqueSlots(table) ==
    \A r1, r2 \in table :
        (r1.stream = r2.stream /\ r1.seq = r2.seq) => r1 = r2

Caps(event) ==
    CASE event.kind = "MessageSent" ->
           << [field |-> "ciphertext", size |-> event.ciphertext, max |-> 65536] >>
      [] event.kind = "Handshake" ->
           << [field |-> "pubKeys", size |-> event.pub_keys, max |-> 65],
              [field |-> "ephemeralPubKey", size |-> event.ephemeral_pub_key,
               max |-> 1216],
              [field |-> "plaintextPayload", size |-> event.plaintext_payload,
               max |-> 1024] >>
      [] event.kind = "HandshakeResponse" ->
           << [field |-> "hsrCiphertext", size |-> event.ciphertext, max |-> 4096] >>
      [] OTHER -> << >>

Over(event) == {i \in DOMAIN Caps(event) : Caps(event)[i].size > Caps(event)[i].max}

Oversized(event) == Over(event) # {}

FirstOver(event) == Caps(event)[MinOf(Over(event))]

\* C9 (payload-too-large rejection changes no state): the step in which
\* process() is entered with an event that has a payload field over its cap
\* is the step in which it returns PayloadTooLarge with the field, its size
\* and the cap, and that step changes no event table and no sequence
\* counter.
C9_TooLargeChangesNothing ==
    [][ \A t \in Tasks :
          (call'[t] # call[t] /\ call'[t].pc # "idle"
           /\ Oversized(call'[t].log.event))
          => /\ call[t].pc = "idle"
             /\ call'[t].pc = "done"
             /\ call'[t].result =
                   PayloadTooLarge(FirstOver(call'[t].log.event).field,
                                   FirstOver(call'[t].log.event).size,
                                   FirstOver(call'[t].log.event).max)
             /\ UNCHANGED store ]_vars

\* An oversized event was rejected while rows and counters exist.
C9_Witness ==
    /\ \E t \in Tasks : call[t].pc = "done" /\ call[t].result.tag = "PayloadTooLarge"
    /\ messages # {}
    /\ handshake_responses # {}
    /\ seq_counters # << >>

\* C10 (size caps): every stored record has each payload field within its
\* cap; a call whose fields are all at most their caps (so also exactly at
\* the cap) is not rejected as too large, and a call with a field one byte
\* over is.
C10_SizeCaps ==
    /\ \A r \in Tables : ~Oversized(r.event)
    /\ \A t \in Tasks :
          call[t].pc # "idle" =>
              (Oversized(call[t].log.event)
                  <=> call[t].result.tag = "PayloadTooLarge")

\* A message with a ciphertext of exactly 65536 bytes is stored, and a call
\* with a field one byte over its cap has been rejected.
C10_Witness ==
    /\ \E r \in messages : r.event.ciphertext = 65536
    /\ \E r \in handshakes :
          /\ r.event.pub_keys = 65
          /\ r.event.ephemeral_pub_key = 1216
          /\ r.event.plaintext_payload = 1024
    /\ \E t \in Tasks :
          /\ call[t].result.tag = "PayloadTooLarge"
          /\ call[t].result.size = call[t].result.max + 1

StreamKeys ==
    {"message", "handshake", "hsr"} \X ({NULL, "T1"} \cup Names)

CallKey(t) == << KeyType(call[t].log.event), KeyHash(call[t].log.event) >>

CounterValues(counters, k) ==
    {counters[i].next_seq :
        i \in {j \in DOMAIN counters :
                 counters[j].key_type = k[1] /\ counters[j].key_hash = k[2]}}

StreamRows(m, h, r, k) ==
    {x \in (CASE k[1] = "message" -> m [] k[1] = "handshake" -> h [] OTHER -> r) :
        x.stream = k[2]}

\* C12 (stream independence): a statement of a Processor call for stream
\* key A changes neither the counter nor the rows of any other stream key
\* B, and a call for a key that has no counter row yet reads sequence
\* number 0 whatever the other keys' counters are.
C12_StreamIndependence ==
    [][ \A t \in Tasks :
          (call'[t] # call[t] /\ call[t].pc \in {"select", "upsert", "insert"})
          => /\ \A k \in StreamKeys \ {CallKey(t)} :
                   /\ CounterValues(seq_counters', k)
                         = CounterValues(seq_counters, k)
                   /\ StreamRows(messages', handshakes',
                                 handshake_responses', k)
                         = StreamRows(messages, handshakes,
                                      handshake_responses, k)
             /\ (call[t].pc = "select" /\ call'[t].pc = "upsert"
                 /\ CounterValues(seq_counters, CallKey(t)) = {})
                => call'[t].seq = 0 ]_vars

\* Handshakes for the distinct recipient hashes A and B are both stored at
\* seq 0, each with its own counter at 1.
C12_Witness ==
    /\ \E r \in handshakes : r.stream = "A" /\ r.seq = 0
    /\ \E r \in handshakes : r.stream = "B" /\ r.seq = 0
    /\ CounterValues(seq_counters, << "handshake", "A" >>) = {1}
    /\ CounterValues(seq_counters, << "handshake", "B" >>) = {1}

\* C13 (gap recovery precedes every re-subscription): on every iteration of
\* the reconnect loop but the first, the worker goes on to open the
\* subscription only from a completed gap recovery: the chain head was not
\* above last_block, or the backfill of [last_block + 1, head] returned Ok.
C13_RecoveryBeforeSubscribe ==
    [][ (sub'.pc = "connect" /\ sub.pc # "connect" /\ ~sub.is_first_connect)
        => \/ sub.pc = "recover" /\ bf.phase = "done"
           \/ sub.pc = "top"
              /\ chain_head <= (IF last_block = NoBlock THEN 0 ELSE last_block)
      ]_vars

\* C14 (retry-queue capacity bound): the retry queue never holds more than
\* 1000 entries, however push, pop and push_retry interleave.
C14_QueueCapacity == Len(queue) <= 1000

RetryFailed ==
    /\ retry.failed # NoFailed
    /\ retry'.failed = NoFailed
    /\ IsErr(call["retry"].result)

\* C15 (dead-lettering after 3 attempts): every entry of the queue, and the
\* entry the drainer holds, has retry_count 0, 1 or 2; a failed retry of an
\* entry with retry_count 0 or 1 puts it back at the end of the queue with
\* retry_count one higher and the error text, and the third failed retry
\* (retry_count 2) logs it as dead-lettered and leaves the queue as it was;
\* an event with a payload field over its cap is never stored, and no step
\* that handles the result of such an event changes last_block.
C15_DeadLetterAfterThree ==
    /\ [](/\ \A i \in DOMAIN queue : queue[i].retry_count \in {0, 1, 2}
          /\ retry.failed.retry_count \in {0, 1, 2}
          /\ \A r \in Tables : ~Oversized(r.event))
    /\ [][ /\ RetryFailed =>
               IF retry.failed.retry_count = 2
               THEN /\ queue' = queue
                    /\ dead_letters' = dead_letters
                          \cup {[block_number |-> retry.failed.log.block_number,
                                 log_index |-> retry.failed.log.log_index,
                                 reason |-> "max retries"]}
               ELSE /\ queue' = Append(queue,
                          [log |-> retry.failed.log,
                           retry_count |-> retry.failed.retry_count + 1,
                           last_error |-> call["retry"].result.tag])
                    /\ dead_letters' = dead_letters
            /\ \A t \in Tasks :
                  (call[t].pc = "done" /\ call'[t].pc = "idle"
                   /\ Oversized(call[t].log.event))
                  => last_block' = last_block ]_vars

\* An oversized event has failed live and in three retries and has been
\* logged as dead-lettered; it is not stored and last_block is unset.
C15_Witness ==
    /\ \E d \in dead_letters :
          /\ d.reason = "max retries"
          /\ ~StoredAt(d.block_number, d.log_index)
    /\ last_block = NoBlock
    /\ retry.failed = NoFailed

\* C16 (shutdown liveness): once the shutdown signal has been broadcast the
\* subscription worker and the retry drainer each terminate in the end,
\* wherever they were; and a subscription worker at the top of the
\* reconnect loop with the signal set goes nowhere but to its exit, so it
\* opens no connection after that.
C16_ShutdownLiveness ==
    /\ shutdown ~> (sub.pc = "stopped" /\ retry.pc = "stopped")
    /\ [][ /\ (sub.pc = "top" /\ shutdown) => sub'.pc \in {"top", "stopped"}
           /\ sub.pc = "stopped" => sub'.pc = "stopped"
           /\ retry.pc = "stopped" => retry'.pc = "stopped" ]_vars

\* Both workers have stopped on the signal, which reached the subscription
\* worker while it had reconnected at least once.
C16_Witness ==
    /\ shutdown
    /\ sub.pc = "stopped"
    /\ retry.pc = "stopped"
    /\ sub.backoff > 1

\* C17 (start-block selection): when main begins its initial backfill, it
\* begins at max(chain_head - 43200 * backfill_days, creation_block), the
\* subtraction clamped at 0, if the store is empty, and at last_block + 1
\* otherwise; so with a checkpoint in the store it never begins at a block
\* <= last_block.
C17_StartBlock ==
    [][ (main_pc = "start" /\ main_pc' = "backfill")
        => /\ Tables = {}
              => bf'.from_block =
                    Max(IF chain_head >= 43200 * backfill_days
                        THEN chain_head - 43200 * backfill_days ELSE 0,
                        creation_block)
           /\ (Tables # {} /\ last_block # NoBlock)
              => bf'.from_block = last_block + 1
           /\ last_block # NoBlock => bf'.from_block > last_block ]_vars

(***************************************************************************)
(* C18: chunk partition and per-chunk checkpoint.  While run_backfill is   *)
(* inside its loop the chunk start is from_block plus a multiple of the    *)
(* chunk size and lies in [from_block, to_block]; a fetch asks for exactly *)
(* [chunk_start, min(chunk_start + chunk_size - 1, to_block)]; the         *)
(* checkpoint step writes last_block = that chunk end and                  *)
(* blocks_processed = chunk end - from_block + 1, and either moves on to   *)
(* the chunk that starts one block after the chunk end or returns with     *)
(* last_block = to_block and blocks_processed = to_block - from_block + 1. *)
(***************************************************************************)
ChunkLast(b) ==
    IF b.chunk_start + rpc_chunk_size - 1 <= b.to_block
    THEN b.chunk_start + rpc_chunk_size - 1 ELSE b.to_block

C18_ChunkPartition ==
    /\ [](bf.phase \in {"fetch", "logs"}
            => /\ bf.from_block <= bf.chunk_start
               /\ bf.chunk_start <= bf.to_block
               /\ (bf.chunk_start - bf.from_block) % rpc_chunk_size = 0)
    /\ [][ /\ (bf.phase = "fetch" /\ bf'.phase = "logs")
              => \A n \in 0..MaxBlock + 1 :
                    (\E i \in DOMAIN bf'.logs : bf'.logs[i].block_number = n)
                        => (bf.chunk_start <= n /\ n <= ChunkLast(bf))
           /\ (bf.phase = "logs" /\ bf'.phase \in {"fetch", "done"})
              => /\ last_block' = ChunkLast(bf)
                 /\ bf'.stats.blocks_processed = ChunkLast(bf) - bf.from_block + 1
                 /\ bf'.phase = "fetch"
                      => /\ bf'.chunk_start = ChunkLast(bf) + 1
                         /\ bf'.chunk_start <= bf.to_block
                 /\ bf'.phase = "done"
                      => /\ last_block' = bf.to_block
                         /\ bf'.stats.blocks_processed
                                = bf.to_block - bf.from_block + 1 ]_vars

\* A backfill of more than one chunk has returned with its last checkpoint.
C18_Witness ==
    /\ bf.phase = "done"
    /\ bf.to_block - bf.from_block + 1 > rpc_chunk_size
    /\ last_block = bf.to_block
    /\ bf.stats.blocks_processed = bf.to_block - bf.from_block + 1

(***************************************************************************)
(* C19: backfill checkpoints only successful progress.  run_backfill       *)
(* writes the checkpoint of a chunk only if no Processor call of the chunk *)
(* returned an error, and the value it writes is below the block of every  *)
(* event of the chunk whose call returned an error.                        *)
(***************************************************************************)
C19_CheckpointOnlySuccess ==
    [][ (bf.phase = "logs" /\ bf'.phase \in {"fetch", "done"})
        => /\ bf.failed = {}
           /\ \A l \in bf.failed : last_block' < l.block_number ]_vars

(***************************************************************************)
(* C20: a live Processor error is recoverable by gap recovery.  When the   *)
(* live worker takes an Err result for a log of block b, the event goes to *)
(* the back of the retry queue with retry_count 0 and the error text and   *)
(* last_block keeps its value; and when the next pass of the reconnect     *)
(* loop starts its gap-recovery backfill, from_block <= b for every such   *)
(* block b.                                                                *)
(***************************************************************************)
C20_LiveErrorRecoverable ==
    [][ /\ ( /\ sub.pc = "live"
             /\ call["subscriber"].pc = "done"
             /\ IsErr(call["subscriber"].result)
             /\ call'["subscriber"].pc = "idle" )
           => /\ last_block' = last_block
              /\ queue' # << >>
              /\ queue'[Len(queue')]
                    = FailedEvent(call["subscriber"].log, 0,
                                  call["subscriber"].result.tag)
        /\ (sub.pc = "top" /\ sub'.pc = "recover")
           => \A b \in sub.live_failed : bf'.from_block <= b ]_vars

(***************************************************************************)
(* C21: a timestamp-fetch failure is recoverable by gap recovery.  When    *)
(* the timestamp fetch for a live log of block b fails, the log is skipped *)
(* and the store, the retry queue, the dead letters and last_block keep    *)
(* their values; and when the next pass of the reconnect loop starts its   *)
(* gap-recovery backfill, last_block < b (so from_block <= b) for every    *)
(* such block b.                                                           *)
(***************************************************************************)
C21_TimestampFailureRecoverable ==
    [][ /\ sub'.live_skipped \ sub.live_skipped # {}
           => /\ UNCHANGED << store, queue, dead_letters, last_block, call >>
              /\ stream' = Tail(stream)
        /\ (sub.pc = "top" /\ sub'.pc = "recover")
           => \A b \in sub.live_skipped :
                 /\ last_block = NoBlock \/ last_block < b
                 /\ bf'.from_block <= b ]_vars

(***************************************************************************)
(* C22: checkpoint frame on Duplicate.  When the live worker or the retry  *)
(* drainer takes the result of a Processor call, a result other than       *)
(* Inserted leaves last_block unchanged, and a change of last_block comes  *)
(* from an Inserted result and writes that event's block number.           *)
(***************************************************************************)
TakesResult(t) ==
    /\ \/ t = "subscriber" /\ sub.pc = "live"
       \/ t = "retry" /\ retry.pc = "drain"
    /\ call[t].pc = "done"
    /\ call'[t].pc = "idle"

C22_CheckpointFrame ==
    [][ \A t \in {"subscriber", "retry"} :
          TakesResult(t)
          => /\ call[t].result # Ok(TRUE) => last_block' = last_block
             /\ last_block' # last_block
                  => /\ call[t].result = Ok(TRUE)
                     /\ last_block' = call[t].log.block_number ]_vars

\* Both workers have just taken a Duplicate, after some Inserted result wrote
\* the checkpoint.
C22_Witness ==
    /\ retry.outcome = "Duplicate"
    /\ sub.outcome = "Duplicate"
    /\ sub.pc = "live"
    /\ last_block # NoBlock

(***************************************************************************)
(* C23: reconnect backoff is reset by success.  When connect_and_subscribe *)
(* fails after the subscription had been established, the delay the        *)
(* reconnect loop then sleeps is the initial 1 s.                          *)
(***************************************************************************)
C23_BackoffResetBySuccess ==
    [][ (sub.pc = "live" /\ sub'.pc = "backoff") => sub'.backoff = 1 ]_vars

(***************************************************************************)
(* C24: reconnect backoff bounds.  The delay starts at 1 s, each failed    *)
(* connect_and_subscribe is followed by one sleep of the current delay and *)
(* then doubles it up to the cap of 60 s, nothing else changes it: the     *)
(* n-th failure sleeps min(2^(n-1), 60) s, i.e. 1, 2, 4, 8, 16, 32, 60,    *)
(* 60, ..., and the delay is always within [1 s, 60 s].                    *)
(***************************************************************************)
C24_BackoffBounds ==
    /\ [](/\ sub.backoff >= 1
          /\ sub.backoff <= 60
          /\ sub.pc = "off" => sub.backoff = 1
          /\ sub.pc = "backoff"
               => sub.backoff = (IF 2 ^ (disconnects - 1) <= 60
                                 THEN 2 ^ (disconnects - 1) ELSE 60))
    /\ [][ sub'.backoff # sub.backoff
           => /\ sub.pc = "backoff"
              /\ sub'.backoff = (IF sub.backoff * 2 <= 60
                                 THEN sub.backoff * 2 ELSE 60) ]_vars

\* The eighth failure in a row of failures and successes sleeps the cap.
C24_Witness ==
    /\ sub.pc = "backoff"
    /\ disconnects = 8
    /\ sub.backoff = 60
    /\ last_block # NoBlock

(***************************************************************************)
(* C25: bounded rate-limit retry in backfill.  A getLogs or                *)
(* getBlockByNumber request is retried only on an error whose text holds   *)
(* "429", "exceeded" or "rate", at most 5 times, after sleeping 1000, 2000,*)
(* 4000, 8000, 16000 ms; the sixth such error, an error of another kind at *)
(* any attempt and a missing block end the loop with that error and no     *)
(* further sleep, and the backfill then fails; every fetch of a chunk      *)
(* ends.                                                                   *)
(***************************************************************************)
RetriedTexts ==
    { << "H", "T", "T", "P", " ", "4", "2", "9" >>,
      << "l", "i", "m", "i", "t", " ", "e", "x", "c", "e", "e", "d", "e", "d" >>,
      << "r", "a", "t", "e" >> }

C25_BoundedRateLimitRetry ==
    /\ [](bf.phase = "fetch"
            => /\ RpcState(bf).attempt <= 5
               /\ Len(RpcState(bf).slept) = RpcState(bf).attempt
               /\ \A i \in 1 .. RpcState(bf).attempt :
                     RpcState(bf).slept[i] = 1000 * 2 ^ (i - 1))
    /\ [][ (bf.phase = "fetch" /\ RpcState(bf).status = "pending")
           => /\ RpcState(bf)'.attempt > RpcState(bf).attempt
                   => /\ RpcState(bf)'.attempt = RpcState(bf).attempt + 1
                      /\ RpcState(bf)'.error \in RetriedTexts
                      /\ RpcState(bf)'.status = "pending"
              /\ RpcState(bf)'.status = "failed"
                   => /\ \/ RpcState(bf)'.error \notin RetriedTexts
                         \/ RpcState(bf).attempt = 5
                      /\ RpcState(bf)'.slept = RpcState(bf).slept ]_vars
    /\ [][ (bf.phase = "fetch" /\ RpcState(bf).status = "failed")
           => bf'.phase = "failed" ]_vars
    /\ (bf.phase = "fetch") ~> (bf.phase # "fetch")

\* The second chunk's timestamp request gave up after five rate-limit
\* retries, and the run failed.
C25_Witness ==
    /\ bf.phase = "failed"
    /\ bf.chunk_start > bf.from_block
    /\ bf.rpc.request = "get_block"
    /\ bf.rpc.slept = << 1000, 2000, 4000, 8000, 16000 >>
    /\ bf.rpc.error \in RetriedTexts

(***************************************************************************)
(* C26: a backfill failure leaves a consistent prefix.  When run_backfill  *)
(* fails while fetching the logs or timestamps of a chunk, the run has     *)
(* stored no event of that chunk or of a later one, last_block is the end  *)
(* of the chunk before (the value from before the run if the chunk is the  *)
(* first), and a re-run from last_block + 1 skips and repeats nothing:     *)
(* every event of the run's range up to last_block is stored and the run   *)
(* stored none beyond last_block.                                          *)
(***************************************************************************)
C26_ConsistentPrefix ==
    [][ (bf.phase = "fetch" /\ bf'.phase = "failed")
        => /\ \A r \in bf.inserted : r.block_number < bf.chunk_start
           /\ last_block' = (IF bf.chunk_start > bf.from_block
                             THEN bf.chunk_start - 1 ELSE bf.last_before)
           /\ \A l \in KnownLogs(bf.from_block, last_block') :
                 StoredAt(l.block_number, l.log_index)
           /\ \A r \in bf.inserted : r.block_number <= last_block' ]_vars

(***************************************************************************)
(* C27: drop-oldest push and FIFO order.  A push onto a queue of 1000      *)
(* entries removes the head, dead-letters it as "queue full" and appends   *)
(* the new event with retry_count 0, leaving 1000 entries; a push onto a   *)
(* queue of fewer than 1000 entries appends the new event with             *)
(* retry_count 0 and removes nothing; a pop returns the head and leaves    *)
(* the rest in order.                                                      *)
(***************************************************************************)
IsPush == calls' = calls + 1 /\ retry' = retry
IsPop == calls' = calls + 1 /\ retry' # retry

C27_DropOldestFifo ==
    [][ /\ IsPush
           => /\ queue' # << >>
              /\ queue'[Len(queue')].retry_count = 0
              /\ queue'[Len(queue')].log.block_number = 1000 + calls + 1
              /\ Len(queue) = 1000
                   => /\ Len(queue') = 1000
                      /\ SubSeq(queue', 1, 999) = SubSeq(queue, 2, 1000)
                      /\ dead_letters' = dead_letters \cup
                            {[block_number |-> queue[1].log.block_number,
                              log_index |-> queue[1].log.log_index,
                              reason |-> "queue full"]}
              /\ Len(queue) < 1000
                   => /\ Len(queue') = Len(queue) + 1
                      /\ SubSeq(queue', 1, Len(queue)) = queue
                      /\ dead_letters' = dead_letters
        /\ IsPop
           => /\ retry'.failed = queue[1]
              /\ Len(queue') = Len(queue) - 1
              /\ \A i \in 1 .. Len(queue') : queue'[i] = queue[i + 1] ]_vars

\* A push onto the full queue dropped the oldest entry (block 1), and the pop
\* after it returned the next oldest (block 2).
C27_Witness ==
    /\ \E d \in dead_letters : d.reason = "queue full" /\ d.block_number = 1
    /\ retry.failed # NoFailed
    /\ retry.failed.log.block_number = 2
    /\ Len(queue) = 999
    /\ queue[999].retry_count = 0
    /\ queue[999].log.block_number > 1000

(***************************************************************************)
(* C28: one attempt per entry per tick.  Within one drain pass of the      *)
(* retry worker no entry is handed to the Processor twice: an entry popped *)
(* in the pass has not been tried earlier in the same pass.                *)
(***************************************************************************)
C28_OneAttemptPerTick ==
    [][ (retry.pc = "drain" /\ retry.failed = NoFailed
            /\ retry'.failed # NoFailed)
        => << retry'.failed.log.block_number, retry'.failed.log.log_index >>
              \notin retry.tried ]_vars

(***************************************************************************)
(* C29: retry-queue liveness.  With the drainer ticking and no shutdown,   *)
(* every entry of the retry queue eventually leaves it, and it leaves it   *)
(* processed (the drainer took Inserted or Duplicate for it) or            *)
(* dead-lettered; every drain pass ends; and when the retry of a queued    *)
(* event is Inserted and its checkpoint write does not fail, the event is  *)
(* stored in exactly one row and last_block is then at least its block.    *)
(***************************************************************************)
Positions == (1 .. MaxBlock + MaxCalls) \X {0, 1}

At(entry, pos) ==
    entry.log.block_number = pos[1] /\ entry.log.log_index = pos[2]

Pending(pos) ==
    \/ \E i \in DOMAIN queue : At(queue[i], pos)
    \/ retry.failed # NoFailed /\ At(retry.failed, pos)

RowsAt(pos) ==
    {r \in Tables : r.block_number = pos[1] /\ r.log_index = pos[2]}

C29_RetryQueueLiveness ==
    /\ [][ \A pos \in Positions :
             (Pending(pos) /\ ~Pending(pos)')
             => \/ retry.failed # NoFailed /\ At(retry.failed, pos)
                   /\ retry'.outcome \in {"Inserted", "Duplicate"}
                \/ \E d \in dead_letters' \ dead_letters :
                      d.block_number = pos[1] /\ d.log_index = pos[2] ]_vars
    /\ [][ \A pos \in Positions :
             ( /\ retry.failed # NoFailed
               /\ At(retry.failed, pos)
               /\ retry'.failed = NoFailed
               /\ call["retry"].result = Ok(TRUE)
               /\ faults' = faults )
             => /\ Cardinality(RowsAt(pos)') = 1
                /\ last_block' >= pos[1] ]_vars
    /\ \A pos \in Positions : Pending(pos) ~> ~Pending(pos)
    /\ (retry.pc = "drain") ~> (retry.pc = "sleep")

(***************************************************************************)
(* C30: global handshake-response counter.  seq_counters holds at most one *)
(* entry for the handshake-response stream, whose key is NULL; and in a    *)
(* run of calls one after the other, the call for a HandshakeResponse      *)
(* event draws the number of responses stored so far as its global_seq and *)
(* its insert is not rejected as Duplicate.                                *)
(***************************************************************************)
HsrCounters ==
    {i \in DOMAIN seq_counters :
        /\ seq_counters[i].key_type = KeyType(HandshakeResponse(0))
        /\ seq_counters[i].key_hash = NULL}

C30_GlobalHsrCounter ==
    /\ [](Cardinality(HsrCounters) <= 1)
    /\ [][ \A t \in Tasks :
             ( /\ call[t].pc = "insert"
               /\ call[t].log.event.kind = "HandshakeResponse"
               /\ call'[t].pc = "done" )
             => /\ call[t].seq = Cardinality(handshake_responses)
                /\ call'[t].result = Ok(TRUE) ]_vars

(***************************************************************************)
(* C31: unknown logs change nothing.  A log with no topics, with a first   *)
(* topic that is none of the three signatures, or with data that does not  *)
(* decode as the event its signature names is ignored by the backfill and  *)
(* by the live worker: the step that takes it starts no Processor call and *)
(* leaves the tables, the counters, the checkpoint, the retry queue and    *)
(* the dead letters as they were, and the worker stays in its loop over    *)
(* the logs; and at no time is there a row, a call, a queue entry or a     *)
(* dead letter for the position of such a log.                             *)
(***************************************************************************)
Unknown(log) ==
    \/ log.topics = << >>
    \/ log.topics[1] \notin Signatures
    \/ log.data.kind # log.topics[1]

\* The log at index log_index of block block_number is an unknown one.
UnknownAt(block_number, log_index) ==
    /\ block_number \in 1 .. MaxBlock
    /\ log_index + 1 \in DOMAIN LogsOf(block_number)
    /\ Unknown(LogsOf(block_number)[log_index + 1])

Untouched ==
    /\ UNCHANGED << store, last_block, call, queue, dead_letters >>

C31_UnknownLogsIgnored ==
    /\ [](/\ \A r \in Tables : ~UnknownAt(r.block_number, r.log_index)
          /\ \A t \in Tasks :
                call[t].pc # "idle" =>
                    ~UnknownAt(call[t].log.block_number, call[t].log.log_index)
          /\ \A i \in DOMAIN queue :
                ~UnknownAt(queue[i].log.block_number, queue[i].log.log_index)
          /\ \A d \in dead_letters :
                ~UnknownAt(d.block_number, d.log_index))
    /\ [][ /\ ( /\ bf.phase = "logs"
                /\ bf.logs # << >>
                /\ Unknown(Head(bf.logs))
                /\ bf'.logs = Tail(bf.logs) )
              => (Untouched /\ bf'.phase = "logs")
           /\ ( /\ sub.pc = "live"
                /\ stream # << >>
                /\ Unknown(Head(stream))
                /\ stream' = Tail(stream)
                /\ sub'.pc = "live" )
              => Untouched ]_vars

\* The live worker has stored the HandshakeResponse of block 2 and has then
\* taken the undecodable log that follows it from the stream; no backfill
\* has run (the events of block 1 are not stored).
C31_Witness ==
    /\ bf = NoBackfill
    /\ ~StoredAt(1, 0)
    /\ ~StoredAt(1, 1)
    /\ last_block = 2
    /\ chain_head = 2
    /\ sub.pc = "live"
    /\ sub.outcome = "none"
    /\ sub.live_skipped = {}
    /\ stream = << >>
    /\ call["subscriber"].pc = "idle"
    /\ StoredAt(2, 1)
    /\ queue = << >>
    /\ faults = 0

(***************************************************************************)
(* C33: startup coverage up to the observed head.  At the step in which    *)
(* main launches the subscription worker, the checkpoint has reached the   *)
(* chain head main observed at startup (the head read by the step itself   *)
(* when no backfill is run, to_block of the initial backfill otherwise),   *)
(* for every head from the creation block on; and after a failed initial   *)
(* backfill main has exited and the worker is never launched.              *)
(***************************************************************************)
Launches == sub.pc = "off" /\ sub'.pc # "off"

ObservedHead == IF main_pc = "backfill" THEN bf.to_block ELSE chain_head

C33_StartupCoverage ==
    /\ [](main_pc = "exited" => sub.pc = "off")
    /\ [][ /\ Launches =>
                \/ ObservedHead < creation_block
                \/ last_block >= ObservedHead
           /\ (main_pc = "backfill" /\ bf.phase = "failed") => ~Launches
         ]_vars

(***************************************************************************)
(* C32: backfill observes shutdown between iterations.  Once the shutdown  *)
(* signal has been broadcast, a running backfill (initial or gap recovery) *)
(* starts no further chunk: no step taken with the signal set moves a run  *)
(* from the head of its chunk loop to the logs of a chunk.                 *)
(***************************************************************************)
StartsChunk == bf.phase = "fetch" /\ bf'.phase = "logs"

C32_BackfillObservesShutdown ==
    [][ shutdown => ~StartsChunk ]_vars

(***************************************************************************)
(* C34: backfill and live subscription do not interleave.  While an        *)
(* initial or gap-recovery backfill is running, the subscription worker    *)
(* is not yet launched or is waiting for that backfill to return: it has   *)
(* no stream open and reads none; and no log that was received from the    *)
(* subscription is passed to the Processor, neither by the live worker     *)
(* nor, from the retry queue, by the retry worker.                         *)
(***************************************************************************)
Running == bf.phase \in {"fetch", "logs"}

\* The live worker takes a log from the stream and calls the Processor.
LivePasses ==
    /\ stream # << >>
    /\ stream' = Tail(stream)
    /\ call["subscriber"].pc = "idle"
    /\ call'["subscriber"].pc # "idle"

\* The retry worker calls the Processor with a log of the retry queue, all
\* of whose entries were received from the subscription.
RetryPasses ==
    /\ call["retry"].pc = "idle"
    /\ call'["retry"].pc # "idle"

C34_NoInterleaving ==
    /\ [](Running => (sub.pc \in {"off", "recover"} /\ stream = << >>))
    /\ [][ Running => (~LivePasses /\ ~RetryPasses) ]_vars

=============================================================================
